---- MODULE Spec2Model ----
(***************************************************************************)
(* Model of lvm-sys2's src/lvm.rs: the LVM singleton (LazyLock<Mutex<      *)
(* Result<Lvm, CommandRetCode>>>), Lvm::run / Lvm::_run / Lvm::acquire_and *)
(* / Lvm::new, the log callback log_capturer, and the statics CHANNEL,     *)
(* DATA_ARRIVED and CAPTURED_CMD_DATA.  The native engine (lvm2_init,      *)
(* lvm2_log_fn, lvm2_run) is an external library: its return values and    *)
(* the log lines it passes to log_capturer, at any time and from any of   *)
(* its threads, are nondeterministic inputs.                               *)
(* The end of the process is modelled too: Drop for Lvm is the only caller *)
(* of lvm2_exit.                                                           *)
(*                                                                         *)
(* Text is a sequence of tokens (each token a run of characters), so that  *)
(* push_str is \o, is_empty is = <<>>, and starts_with looks at the first  *)
(* token.  A command line is a sequence of byte values (0 is NUL).         *)
(***************************************************************************)
EXTENDS Integers, Sequences, FiniteSets, TLC

\* ------------------------------------------------------------ bounds
\* threads; calls of run / acquire_and in a run of the program; log lines
\* the engine emits in a run of the program
NumThreads == 2
MaxCalls == 2
MaxLines == 3

Threads == 1..NumThreads

\* ------------------------------------------------------------ constants
\* const DEFAULT_LVM_FLAGS: &str = "--reportformat json" (as bytes)
DEFAULT_LVM_FLAGS ==
    <<45, 45, 114, 101, 112, 111, 114, 116, 102, 111, 114, 109, 97, 116,
      32, 106, 115, 111, 110>>

\* r#"{"rust_logger": "no messages from command"}"#
Placeholder == <<"{", "\"rust_logger\"", ":", "\"no messages from command\"", "}">>

CompletedPrefix == "Completed:"
CmdlineFile == "lvmcmdline.c"

\* ------------------------------------------------------------ inputs
\* command lines given to Lvm::run: "pvs" and "pv\0s"
Commands == { <<112, 118, 115>>, <<112, 0, 115>> }

\* what a closure given to Lvm::acquire_and by a caller (tests/lvm.rs) does
\* when it is invoked: return Ok, return Err, or panic
ClosureReturns == {"ok", "err"}

\* native return values of lvm2_run
EngineCodes == {1, 2, 3, 4, 5, 6}

\* log lines the engine may pass to the callback: level, file, message
LogLines ==
    { [level |-> 4, file |-> "report.c",     message |-> <<"{", "\"a\"", ":">>],
      [level |-> 4, file |-> "report.c",     message |-> <<"1", "}">>],
      [level |-> 4, file |-> "lvmcmdline.c", message |-> <<>>],
      [level |-> 7, file |-> "lvmcmdline.c", message |-> <<"Completed:", "pvs">>],
      [level |-> 7, file |-> "toollib.c",    message |-> <<"Completed:", "pvs">>],
      [level |-> 7, file |-> "lvmcmdline.c", message |-> <<"Parsing:", "pvs">>],
      [level |-> 3, file |-> "lvmcmdline.c", message |-> <<"Completed:", "pvs">>] }

\* ------------------------------------------------------------ pure functions
\* impl From<i32> for CommandRetCode
CommandRetCodeFrom_Swapped(v) ==
    CASE v = 1 -> [tag |-> "CommandSucceeded", code |-> 0]
      [] v = 2 -> [tag |-> "InvalidParameters", code |-> 0]
      [] v = 3 -> [tag |-> "NoSuchCommand", code |-> 0]
      [] v = 4 -> [tag |-> "InitFailed", code |-> 0]
      [] v = 5 -> [tag |-> "ProcessingFailed", code |-> 0]
      [] OTHER -> [tag |-> "Unknown", code |-> v]
CommandRetCodeFrom(v) ==
    CASE v = 1 -> [tag |-> "CommandSucceeded", code |-> 0]
      [] v = 2 -> [tag |-> "NoSuchCommand", code |-> 0]
      [] v = 3 -> [tag |-> "InvalidParameters", code |-> 0]
      [] v = 4 -> [tag |-> "InitFailed", code |-> 0]
      [] v = 5 -> [tag |-> "ProcessingFailed", code |-> 0]
      [] OTHER -> [tag |-> "Unknown", code |-> v]

\* impl From<c_int> for LogLevel
LogLevelFrom(value) ==
    CASE value = 2 -> "FATAL"
      [] value = 3 -> "ERROR"
      [] value = 4 -> "PRINT"
      [] value = 5 -> "VERBOSE"
      [] value = 6 -> "VERY_VERBOSE"
      [] value = 7 -> "DEBUG"
      [] OTHER -> "UNKNOWN"

\* message.starts_with("Completed:")
StartsWith_Always(message, prefix) == TRUE
StartsWith(message, prefix) == Len(message) > 0 /\ message[1] = prefix

\* format!("{command} {DEFAULT_LVM_FLAGS}")
FormatCommand_DropsNul(command) ==
    SelectSeq(command, LAMBDA b : b # 0) \o <<32>> \o DEFAULT_LVM_FLAGS
FormatCommand(command) == command \o <<32>> \o DEFAULT_LVM_FLAGS

\* CString::from_str(command.as_str()) fails iff the text has a NUL byte
CStringFromStr_Unchecked(command) == [ok |-> TRUE]
CStringFromStr(command) ==
    IF \E i \in 1..Len(command) : command[i] = 0
    THEN [ok |-> FALSE] ELSE [ok |-> TRUE]

\* The effect of one call of log_capturer on (CAPTURED_CMD_DATA, channel
\* queue); notify tells whether DATA_ARRIVED.notify_all() was called.
log_capturer(level, file, message, cmd_output, queue) ==
    LET lvl == LogLevelFrom(level)
        ignored == [cmd_output |-> cmd_output, queue |-> queue, notify |-> FALSE]
    IN  IF lvl = "DEBUG" /\ file = CmdlineFile
        THEN IF StartsWith(message, CompletedPrefix)
             THEN LET filled == IF cmd_output = <<>> THEN Placeholder ELSE cmd_output
                  IN  [cmd_output |-> <<>>,
                       queue |-> Append(queue, filled),
                       notify |-> TRUE]
             ELSE ignored
        ELSE IF lvl = "PRINT"
        THEN [cmd_output |-> cmd_output \o message, queue |-> queue, notify |-> FALSE]
        ELSE ignored

\* serde_json::from_str::<HashMap<String, Value>>(&string_data), on the
\* token texts above.  The text must be one object and nothing after it; an
\* object is "{" "}" or "{" key ":" value ("," key ":" value)* "}"; a key is
\* any string; a value is a number, a string or an object.  The document is
\* the set of the key/value pairs, a later pair replacing an earlier one of
\* the same key.
KeyTokens == {"\"a\"", "\"rust_logger\"", "\"no messages from command\""}
ScalarTokens == {"1"} \cup KeyTokens

\* serde_json::Value of a number or string token, and of an object
Scalar(tok) == [kind |-> "scalar", tok |-> tok, members |-> {}]
Object(doc) == [kind |-> "object", tok |-> "", members |-> doc]

ParseFailed == [ok |-> FALSE, next |-> 0, doc |-> {}]

RECURSIVE ParseValue(_, _), ParseObject(_, _), ParseMembers(_, _, _)

\* the value that starts at text[i]; next is the index after it
ParseValue(text, i) ==
    IF i > Len(text) THEN [ok |-> FALSE, next |-> 0, value |-> Scalar("")]
    ELSE IF text[i] \in ScalarTokens
    THEN [ok |-> TRUE, next |-> i + 1, value |-> Scalar(text[i])]
    ELSE IF text[i] = "{"
    THEN LET o == ParseObject(text, i)
         IN  [ok |-> o.ok, next |-> o.next, value |-> Object(o.doc)]
    ELSE [ok |-> FALSE, next |-> 0, value |-> Scalar("")]

\* the object whose "{" is text[i]
ParseObject(text, i) ==
    IF i + 1 > Len(text) THEN ParseFailed
    ELSE IF text[i+1] = "}" THEN [ok |-> TRUE, next |-> i + 2, doc |-> {}]
    ELSE ParseMembers(text, i + 1, {})

\* the members of an object from the key at text[i] to its "}"
ParseMembers(text, i, doc) ==
    IF i + 1 > Len(text) \/ text[i] \notin KeyTokens \/ text[i+1] # ":"
    THEN ParseFailed
    ELSE LET v == ParseValue(text, i + 2)
         IN  IF ~v.ok \/ v.next > Len(text) THEN ParseFailed
             ELSE LET doc2 == {p \in doc : p[1] # text[i]}
                                 \cup {<<text[i], v.value>>}
                  IN  IF text[v.next] = "}"
                      THEN [ok |-> TRUE, next |-> v.next + 1, doc |-> doc2]
                      ELSE IF text[v.next] = ","
                      THEN ParseMembers(text, v.next + 1, doc2)
                      ELSE ParseFailed

FromStr(text) ==
    IF Len(text) = 0 \/ text[1] # "{" THEN [ok |-> FALSE, doc |-> {}]
    ELSE LET o == ParseObject(text, 1)
         IN  IF o.ok /\ o.next = Len(text) + 1
             THEN [ok |-> TRUE, doc |-> o.doc]
             ELSE [ok |-> FALSE, doc |-> {}]

\* ------------------------------------------------------------ results
Res(tag, code, text, doc) == [tag |-> tag, code |-> code, text |-> text, doc |-> doc]
NoResult == Res("None", 0, <<>>, {})
Err(tag) == Res(tag, 0, <<>>, {})

\* what the caller's closure returns to acquire_and
ClosureResult(f) ==
    IF f = "ok" THEN Res("Ok", 0, <<>>, {<<"some", "some">>})
    ELSE Res("Unknown", 42, <<>>, {})

NoCall == [kind |-> "none", command |-> <<>>]

\* ------------------------------------------------------------ state
VARIABLES
    LVM,                \* the LazyLock'ed Result<Lvm, _>: "uninit", "Ok" or "Err"
    lvmHolder,          \* thread holding the LVM mutex, 0 if none
    lvmPoisoned,        \* poison flag of the LVM mutex
    CHANNEL,            \* items sent on the mpsc channel and not yet received
    chHolder,           \* thread holding the CHANNEL mutex, 0 if none
    CAPTURED_CMD_DATA,  \* the captured output buffer
    pc,                 \* where each thread is
    call,               \* the call each thread is making
    string_data,        \* the text _run received from the channel
    hist,               \* per call: what this call has done so far (see NoHist)
    ret,                \* the call that returned in the last step, if any
    initCalls,          \* calls of lvm2_init so far
    logFnCalls,         \* calls of lvm2_log_fn so far
    nLines,             \* calls of log_capturer so far
    nCalls,             \* calls of run / acquire_and started so far
    entered,            \* the threads whose call locked LVM and has not yet
                        \* handed its result to its caller, in locking order
    cbWaiting,          \* a log_capturer call holds the CAPTURED_CMD_DATA mutex
                        \* and waits in CHANNEL.lock()
    stray,              \* a callback has arrived while no call was between
                        \* lvm2_run and the receipt of its text
    terminated,         \* the process has ended
    exitCalls           \* calls of lvm2_exit so far

vars == <<LVM, lvmHolder, lvmPoisoned, CHANNEL, chHolder, CAPTURED_CMD_DATA,
          pc, call, string_data, hist, ret, initCalls, logFnCalls, nLines, nCalls,
          entered, cbWaiting, stray, terminated, exitCalls>>

\* What one call has done so far:
\*   touched     which of "init", "log_fn", "singleton", "run", "buffer",
\*               "channel" this call invoked or changed
\*   fCalls      how often acquire_and invoked its function
\*   fResult     what the function returned to acquire_and
\*   pendingAtStart  items in the channel when this call's lvm2_run began
\*   code        native return value of this call's lvm2_run (-1: none yet)
\*   nPrint, nMarker   callbacks of this call's engine invocation:
\*               print-severity ones, completion markers
\*   markerLast  the last callback was a completion marker
\*   printed     the print-severity messages, concatenated in order
\*   pushed      the items the callback sent during this invocation
\*   delivered   a completion marker had been delivered when lvm2_run returned
\*   tried, waited, blockingRecv   the call did try_recv / wait / recv
NoHist ==
    [touched |-> {}, fCalls |-> 0, fResult |-> NoResult, pendingAtStart |-> 0,
     code |-> -1,
     nPrint |-> 0, nMarker |-> 0, markerLast |-> FALSE,
     printed |-> <<>>, pushed |-> <<>>, delivered |-> FALSE,
     tried |-> FALSE, waited |-> FALSE, blockingRecv |-> FALSE]

\* ret when the last step was not a return
NoRet == [thread |-> 0, call |-> NoCall, result |-> NoResult, hist |-> NoHist,
          string_data |-> <<>>]

Init ==
    /\ LVM = "uninit"
    /\ lvmHolder = 0
    /\ lvmPoisoned = FALSE
    /\ CHANNEL = <<>>
    /\ chHolder = 0
    /\ CAPTURED_CMD_DATA = <<>>
    /\ pc = [t \in Threads |-> "idle"]
    /\ call = [t \in Threads |-> NoCall]
    /\ string_data = [t \in Threads |-> <<>>]
    /\ hist = [t \in Threads |-> NoHist]
    /\ ret = NoRet
    /\ initCalls = 0
    /\ logFnCalls = 0
    /\ nLines = 0
    /\ nCalls = 0
    /\ entered = <<>>
    /\ cbWaiting = FALSE
    /\ stray = FALSE
    /\ terminated = FALSE
    /\ exitCalls = 0

\* ------------------------------------------------------------ helpers
\* Mutex::lock() goes through only when no thread holds the mutex
MutexAvailable_NoExclusion(holder) == TRUE
MutexAvailable(holder) == holder = 0

\* LazyLock runs its initializer only on the first dereference
LazyForceNeeded_RetryAfterFailure(state) == state # "Ok"
LazyForceNeeded(state) == state = "uninit"

\* dropping a MutexGuard while the thread panics poisons the mutex
GuardDropPoison_NeverPoisons(poisoned, panicking) == poisoned
GuardDropPoison(poisoned, panicking) == poisoned \/ panicking

\* guard.as_mut() is Ok(lvm) when the memoized Result is Ok
GuardAsMutIsOk_Always(lvm) == TRUE
GuardAsMutIsOk(lvm) == lvm = "Ok"

\* acquire_and returns res (or unwinds): the LVM guard is dropped, and the
\* result is on its way to the caller; h is the call's history
Return_GuardLeaked(t, res, h) ==
    /\ ret' = [thread |-> t, call |-> call[t], result |-> res, hist |-> h,
               string_data |-> string_data[t]]
    /\ pc' = [pc EXCEPT ![t] = "returning"]
    /\ call' = call
    /\ hist' = [hist EXCEPT ![t] = NoHist]
    /\ string_data' = [string_data EXCEPT ![t] = <<>>]
    /\ lvmHolder' = IF res.tag = "Ok" THEN 0 ELSE t
Return(t, res, h) ==
    /\ ret' = [thread |-> t, call |-> call[t], result |-> res, hist |-> h,
               string_data |-> string_data[t]]
    /\ pc' = [pc EXCEPT ![t] = "returning"]
    /\ call' = call
    /\ hist' = [hist EXCEPT ![t] = NoHist]
    /\ string_data' = [string_data EXCEPT ![t] = <<>>]
    /\ lvmHolder' = 0

\* f returns res to acquire_and, which returns it to its caller
ReturnFromF(t, res, h) == Return(t, res, [h EXCEPT !.fResult = res])

\* a step inside a call
Step(t, next, h) ==
    /\ ret' = NoRet
    /\ pc' = [pc EXCEPT ![t] = next]
    /\ hist' = [hist EXCEPT ![t] = h]

\* ch.1.try_recv() is Ok when an item is pending, Err(Empty) otherwise
TryRecvIsOk_Never(queue) == FALSE
TryRecvIsOk(queue) == queue # <<>>

\* ------------------------------------------------------------ actions
\* a caller calls Lvm::run(command)
run(t, command) ==
    /\ pc[t] = "idle"
    /\ ~terminated
    /\ nCalls < MaxCalls
    /\ nCalls' = nCalls + 1
    /\ call' = [call EXCEPT ![t] = [kind |-> "run", command |-> command]]
    /\ Step(t, "acquire", NoHist)
    /\ UNCHANGED <<LVM, lvmHolder, lvmPoisoned, CHANNEL, chHolder, CAPTURED_CMD_DATA,
                   string_data, initCalls, logFnCalls, nLines,
                   cbWaiting, stray, terminated, exitCalls, entered>>

\* a caller calls Lvm::acquire_and(f) with a closure of its own
acquire_and(t) ==
    /\ pc[t] = "idle"
    /\ ~terminated
    /\ nCalls < MaxCalls
    /\ nCalls' = nCalls + 1
    /\ call' = [call EXCEPT ![t] = [kind |-> "acquire_and", command |-> <<>>]]
    /\ Step(t, "acquire", NoHist)
    /\ UNCHANGED <<LVM, lvmHolder, lvmPoisoned, CHANNEL, chHolder, CAPTURED_CMD_DATA,
                   string_data, initCalls, logFnCalls, nLines,
                   cbWaiting, stray, terminated, exitCalls, entered>>

\* first dereference of LVM: LazyLock runs Lvm::new() once, other threads
\* wait for it.  lvm2_init returns a handle or NULL; lvm2_log_fn is called
\* in both cases.
Lvm_new(t, handleIsNull) ==
    /\ pc[t] = "acquire"
    /\ LazyForceNeeded(LVM)
    /\ LVM' = IF handleIsNull THEN "Err" ELSE "Ok"
    /\ initCalls' = initCalls + 1
    /\ logFnCalls' = logFnCalls + 1
    /\ Step(t, "acquire",
            [hist[t] EXCEPT !.touched = @ \cup {"init", "log_fn", "singleton"}])
    /\ UNCHANGED <<lvmHolder, lvmPoisoned, CHANNEL, chHolder, CAPTURED_CMD_DATA,
                   call, string_data, nLines, nCalls,
                   cbWaiting, stray, terminated, exitCalls, entered>>

\* LVM.lock(): Err (poisoned) returns GlobalStatePoisoned and drops the guard
LVM_lock(t) ==
    /\ pc[t] = "acquire"
    /\ ~LazyForceNeeded(LVM)
    /\ MutexAvailable(lvmHolder)
    /\ entered' = Append(entered, t)
    /\ IF lvmPoisoned
       THEN Return(t, Err("GlobalStatePoisoned"), hist[t])
       ELSE /\ Step(t, "locked", hist[t])
            /\ lvmHolder' = t
            /\ UNCHANGED <<call, string_data>>
    /\ UNCHANGED <<LVM, lvmPoisoned, CHANNEL, chHolder, CAPTURED_CMD_DATA,
                   initCalls, logFnCalls, nLines, nCalls,
                   cbWaiting, stray, terminated, exitCalls>>

\* match guard.as_mut(): Err returns InitFailed, Ok invokes f
guard_match(t) ==
    /\ pc[t] = "locked"
    /\ IF GuardAsMutIsOk(LVM)
       THEN /\ Step(t, IF call[t].kind = "run" THEN "_run" ELSE "f",
                    [hist[t] EXCEPT !.fCalls = @ + 1])
            /\ UNCHANGED <<lvmHolder, call, string_data>>
       ELSE Return(t, Err("InitFailed"), hist[t])
    /\ UNCHANGED <<LVM, lvmPoisoned, CHANNEL, chHolder, CAPTURED_CMD_DATA,
                   initCalls, logFnCalls, nLines, nCalls,
                   cbWaiting, stray, terminated, exitCalls, entered>>

\* the caller's closure returns Ok or Err: acquire_and returns it
f_returns(t, f) ==
    /\ pc[t] = "f"
    /\ ReturnFromF(t, ClosureResult(f), hist[t])
    /\ UNCHANGED <<LVM, lvmPoisoned, CHANNEL, chHolder, CAPTURED_CMD_DATA,
                   initCalls, logFnCalls, nLines, nCalls,
                   cbWaiting, stray, terminated, exitCalls, entered>>

\* the caller's closure panics: unwinding drops the guard, which poisons LVM
f_panics(t) ==
    /\ pc[t] = "f"
    /\ lvmPoisoned' = GuardDropPoison(lvmPoisoned, TRUE)
    /\ Return(t, Err("Panic"), hist[t])
    /\ UNCHANGED <<LVM, CHANNEL, chHolder, CAPTURED_CMD_DATA,
                   initCalls, logFnCalls, nLines, nCalls,
                   cbWaiting, stray, terminated, exitCalls, entered>>

\* _run: CString::from_str fails with InvalidCommandLine, else lvm2_run is called
run_cstring(t) ==
    /\ pc[t] = "_run"
    /\ IF CStringFromStr(FormatCommand(call[t].command)).ok
       THEN /\ Step(t, "lvm2_run", [hist[t] EXCEPT !.touched = @ \cup {"run"},
                                                   !.pendingAtStart = Len(CHANNEL)])
            /\ UNCHANGED <<lvmHolder, call, string_data>>
       ELSE ReturnFromF(t, Err("InvalidCommandLine"), hist[t])
    /\ UNCHANGED <<LVM, lvmPoisoned, CHANNEL, chHolder, CAPTURED_CMD_DATA,
                   initCalls, logFnCalls, nLines, nCalls,
                   cbWaiting, stray, terminated, exitCalls, entered>>

\* The callbacks that arrive while _run is between its call of lvm2_run and
\* the receipt of its text belong to that call: the log of a command can
\* arrive after lvm2_run returned (the case DATA_ARRIVED exists for).
InEngineInvocation(at) == at \in {"lvm2_run", "try_recv", "wait", "recv"}

\* what a callback that ran to its end adds to the history of a call
LogHist(h, isPrint, message, out, before) ==
    [h EXCEPT
       !.touched = @ \cup (IF out.cmd_output # before.cmd_output
                           THEN {"buffer"} ELSE {})
                     \cup (IF out.queue # before.queue
                           THEN {"channel"} ELSE {}),
       !.nPrint = IF isPrint THEN @ + 1 ELSE @,
       !.nMarker = IF out.notify THEN @ + 1 ELSE @,
       !.markerLast = out.notify,
       !.printed = IF isPrint THEN @ \o message ELSE @,
       !.pushed = IF out.notify
                  THEN Append(@, out.queue[Len(out.queue)]) ELSE @]

\* The engine calls log_capturer with one log line, at any time: the
\* callback locks CAPTURED_CMD_DATA first, so it does not start while
\* another callback holds it.  A completion marker needs the CHANNEL mutex
\* to send: when it is held, the callback has pushed the placeholder into an
\* empty buffer and waits in CHANNEL.lock(), holding CAPTURED_CMD_DATA.
engine_log(line) ==
    /\ nLines < MaxLines
    /\ ~cbWaiting
    /\ nLines' = nLines + 1
    /\ stray' = (stray \/ \A t \in Threads : ~InEngineInvocation(pc[t]))
    /\ ret' = NoRet
    /\ LET before == [cmd_output |-> CAPTURED_CMD_DATA, queue |-> CHANNEL]
           out == log_capturer(line.level, line.file, line.message,
                                CAPTURED_CMD_DATA, CHANNEL)
           isPrint == LogLevelFrom(line.level) = "PRINT"
       IN  IF out.notify /\ ~MutexAvailable(chHolder)
           THEN /\ CAPTURED_CMD_DATA' = out.queue[Len(out.queue)]
                /\ cbWaiting' = TRUE
                /\ UNCHANGED <<CHANNEL, hist>>
           ELSE /\ CAPTURED_CMD_DATA' = out.cmd_output
                /\ CHANNEL' = out.queue
                /\ cbWaiting' = cbWaiting
                /\ hist' = [t \in Threads |->
                              IF InEngineInvocation(pc[t])
                              THEN LogHist(hist[t], isPrint, line.message, out, before)
                              ELSE hist[t]]
    /\ UNCHANGED <<LVM, lvmHolder, lvmPoisoned, chHolder, pc, call, string_data,
                   initCalls, logFnCalls, nCalls, entered, terminated, exitCalls>>

\* the waiting callback gets the CHANNEL mutex: it sends the drained buffer,
\* calls notify_all and returns, which releases both mutexes
log_capturer_sends ==
    /\ cbWaiting
    /\ MutexAvailable(chHolder)
    /\ cbWaiting' = FALSE
    /\ ret' = NoRet
    /\ LET before == [cmd_output |-> CAPTURED_CMD_DATA, queue |-> CHANNEL]
           out == [cmd_output |-> <<>>,
                   queue |-> Append(CHANNEL, CAPTURED_CMD_DATA),
                   notify |-> TRUE]
       IN  /\ CAPTURED_CMD_DATA' = out.cmd_output
           /\ CHANNEL' = out.queue
           /\ hist' = [t \in Threads |->
                         IF InEngineInvocation(pc[t])
                         THEN LogHist(hist[t], FALSE, <<>>, out, before)
                         ELSE hist[t]]
    /\ UNCHANGED <<LVM, lvmHolder, lvmPoisoned, chHolder, pc, call, string_data,
                   initCalls, logFnCalls, nLines, nCalls, entered, stray,
                   terminated, exitCalls>>

\* lvm2_run returns v: anything but CommandSucceeded is returned as the error
engine_return(t, v) ==
    /\ pc[t] = "lvm2_run"
    /\ LET rc == CommandRetCodeFrom(v)
           h == [hist[t] EXCEPT !.code = v, !.delivered = hist[t].nMarker >= 1]
       IN  IF rc.tag = "CommandSucceeded"
           THEN /\ Step(t, "try_recv", h)
                /\ UNCHANGED <<lvmHolder, call, string_data>>
           ELSE ReturnFromF(t, Res(rc.tag, rc.code, <<>>, {}), h)
    /\ UNCHANGED <<LVM, lvmPoisoned, CHANNEL, chHolder, CAPTURED_CMD_DATA,
                   initCalls, logFnCalls, nLines, nCalls,
                   cbWaiting, stray, terminated, exitCalls, entered>>

\* CHANNEL.lock() then try_recv(): an item, or DATA_ARRIVED.wait(ch), which
\* releases the CHANNEL mutex
try_recv(t) ==
    /\ pc[t] = "try_recv"
    /\ MutexAvailable(chHolder)
    /\ IF TryRecvIsOk(CHANNEL)
       THEN /\ string_data' = [string_data EXCEPT ![t] = Head(CHANNEL)]
            /\ CHANNEL' = Tail(CHANNEL)
            /\ chHolder' = t
            /\ Step(t, "from_str", [hist[t] EXCEPT !.tried = TRUE,
                                                   !.touched = @ \cup {"channel"}])
       ELSE /\ Step(t, "wait", [hist[t] EXCEPT !.tried = TRUE, !.waited = TRUE])
            /\ UNCHANGED <<string_data, CHANNEL, chHolder>>
    /\ UNCHANGED <<LVM, lvmHolder, lvmPoisoned, CAPTURED_CMD_DATA, call,
                   initCalls, logFnCalls, nLines, nCalls,
                   cbWaiting, stray, terminated, exitCalls, entered>>

\* DATA_ARRIVED.wait returns, after notify_all or spuriously, and re-locks
\* CHANNEL
wait_returns(t) ==
    /\ pc[t] = "wait"
    /\ MutexAvailable(chHolder)
    /\ chHolder' = t
    /\ Step(t, "recv", [hist[t] EXCEPT !.blockingRecv = TRUE])
    /\ UNCHANGED <<LVM, lvmHolder, lvmPoisoned, CHANNEL, CAPTURED_CMD_DATA, call,
                   string_data, initCalls, logFnCalls, nLines, nCalls,
                   cbWaiting, stray, terminated, exitCalls, entered>>

\* ch.1.recv() blocks until the channel has an item; the guard wait
\* returned is dropped at the end of the match arm, before from_str
recv(t) ==
    /\ pc[t] = "recv"
    /\ CHANNEL # <<>>
    /\ chHolder' = 0
    /\ string_data' = [string_data EXCEPT ![t] = Head(CHANNEL)]
    /\ CHANNEL' = Tail(CHANNEL)
    /\ Step(t, "from_str", [hist[t] EXCEPT !.touched = @ \cup {"channel"}])
    /\ UNCHANGED <<LVM, lvmHolder, lvmPoisoned, CAPTURED_CMD_DATA, call,
                   initCalls, logFnCalls, nLines, nCalls,
                   cbWaiting, stray, terminated, exitCalls, entered>>

\* serde_json::from_str(&string_data); _run returns: the LVM guard drops,
\* and the CHANNEL guard too if _run still has it (try_recv path)
from_str(t) ==
    /\ pc[t] = "from_str"
    /\ LET parsed == FromStr(string_data[t])
       IN  ReturnFromF(t, IF parsed.ok
                          THEN Res("Ok", 0, <<>>, parsed.doc)
                          ELSE Res("JsonDeserializationFailed", 0, string_data[t], {}),
                       hist[t])
    /\ chHolder' = IF chHolder = t THEN 0 ELSE chHolder
    /\ UNCHANGED <<LVM, lvmPoisoned, CHANNEL, CAPTURED_CMD_DATA,
                   initCalls, logFnCalls, nLines, nCalls,
                   cbWaiting, stray, terminated, exitCalls, entered>>

\* the caller has the result: the thread may call again
returns_to_caller(t) ==
    /\ pc[t] = "returning"
    /\ call' = [call EXCEPT ![t] = NoCall]
    /\ entered' = SelectSeq(entered, LAMBDA u : u # t)
    /\ Step(t, "idle", hist[t])
    /\ UNCHANGED <<LVM, lvmHolder, lvmPoisoned, CHANNEL, chHolder, CAPTURED_CMD_DATA,
                   string_data, initCalls, logFnCalls, nLines, nCalls,
                   cbWaiting, stray, terminated, exitCalls>>

\* Rust runs no destructor of a static item when the process ends: the Lvm
\* inside LVM is never dropped
StaticDroppedAtExit == FALSE

\* the process ends, every thread being outside the gateway; Drop for Lvm,
\* the only caller of lvm2_exit, runs if the Lvm in LVM is dropped
process_exit ==
    /\ ~terminated
    /\ \A t \in Threads : pc[t] = "idle"
    /\ terminated' = TRUE
    /\ exitCalls' = IF StaticDroppedAtExit /\ LVM = "Ok"
                    THEN exitCalls + 1 ELSE exitCalls
    /\ ret' = NoRet
    /\ UNCHANGED <<LVM, lvmHolder, lvmPoisoned, CHANNEL, chHolder, CAPTURED_CMD_DATA,
                   pc, call, string_data, hist, initCalls, logFnCalls, nLines,
                   nCalls, entered, cbWaiting, stray>>

Next ==
    \/ process_exit
    \/ \E line \in LogLines : engine_log(line)
    \/ log_capturer_sends
    \/ \E t \in Threads :
        \/ \E command \in Commands : run(t, command)
        \/ acquire_and(t)
        \/ \E handleIsNull \in BOOLEAN : Lvm_new(t, handleIsNull)
        \/ LVM_lock(t)
        \/ guard_match(t)
        \/ \E f \in ClosureReturns : f_returns(t, f)
        \/ f_panics(t)
        \/ run_cstring(t)
        \/ \E v \in EngineCodes : engine_return(t, v)
        \/ try_recv(t)
        \/ wait_returns(t)
        \/ recv(t)
        \/ from_str(t)
        \/ returns_to_caller(t)

Spec == Init /\ [][Next]_vars

\* Spec with the scheduling the termination claims assume: a thread inside
\* a call keeps running, the LVM mutex is fair, every engine call returns
\* and every closure given to acquire_and ends.  Callers need not call, the
\* engine need not log, and a waiting thread need not be woken.
Fairness ==
    \A t \in Threads :
        /\ WF_vars(\E handleIsNull \in BOOLEAN : Lvm_new(t, handleIsNull))
        /\ SF_vars(LVM_lock(t))
        /\ WF_vars(guard_match(t))
        /\ WF_vars(f_panics(t) \/ \E f \in ClosureReturns : f_returns(t, f))
        /\ WF_vars(run_cstring(t))
        /\ WF_vars(\E v \in EngineCodes : engine_return(t, v))
        /\ WF_vars(try_recv(t))
        /\ WF_vars(recv(t))
        /\ WF_vars(from_str(t))
        /\ WF_vars(returns_to_caller(t))

FairSpec == Spec /\ Fairness

\* ------------------------------------------------------------ claims
Returned == ret.thread # 0
HasNul(command) == \E i \in 1..Len(command) : command[i] = 0
ReturnedNulRun == Returned /\ ret.call.kind = "run" /\ HasNul(ret.call.command)
GlobalStatePoisoned == Res("GlobalStatePoisoned", 0, <<>>, {})
InitFailed == Res("InitFailed", 0, <<>>, {})
InvalidCommandLine == Res("InvalidCommandLine", 0, <<>>, {})
PlaceholderDoc == {<<"\"rust_logger\"", Scalar("\"no messages from command\"")>>}

\* from the call of lvm2_run to the retrieval of the captured output
InCriticalSection(t) == pc[t] \in {"lvm2_run", "try_recv", "wait", "recv", "from_str"}

\* C1: at most one thread at a time is between its engine invocation and the
\* retrieval of its output, and that thread holds the LVM mutex; so no
\* second lvm2_run starts before the first caller has its output.
C1_MutualExclusion ==
    \A t1, t2 \in Threads :
        InCriticalSection(t1) /\ InCriticalSection(t2) => t1 = t2 /\ lvmHolder = t1

\* C1 witness: one thread is about to retrieve its output while another
\* thread's run call waits for the LVM mutex.
C1_Witness ==
    \E t1, t2 \in Threads :
        /\ pc[t1] = "try_recv"
        /\ pc[t2] = "acquire" /\ call[t2].kind = "run" /\ ~HasNul(call[t2].command)

\* C2 (as claimed): a run call that returns Ok took from the channel the
\* item its own engine invocation pushed: nothing was pending when its
\* lvm2_run began, and the text taken is the first item pushed since.
\* (no callback has arrived outside an engine invocation)
C2_TakesOwnItem ==
    ~stray =>
      ( Returned /\ ret.call.kind = "run" /\ ret.result.tag = "Ok"
            => /\ ret.hist.pendingAtStart = 0
               /\ ret.hist.pushed # <<>>
               /\ ret.string_data = ret.hist.pushed[1] )

\* C3 (as claimed): run with a command text that has an embedded NUL returns
\* InvalidCommandLine.
C3_NulAlwaysInvalidCommandLine ==
    ReturnedNulRun => ret.result = InvalidCommandLine

\* C3 (amended): run with a command text that has an embedded NUL returns
\* GlobalStatePoisoned if the LVM mutex is poisoned, else InitFailed if the
\* lazy initialization failed, else InvalidCommandLine.
C3_NulResult ==
    ReturnedNulRun =>
        ret.result = IF lvmPoisoned THEN GlobalStatePoisoned
                     ELSE IF LVM = "Err" THEN InitFailed
                     ELSE InvalidCommandLine

\* C3 witness: a run with an embedded NUL has returned InvalidCommandLine.
C3_Witness == ReturnedNulRun /\ ret.result = InvalidCommandLine

\* C4 (as claimed): a run with an embedded NUL invokes no engine function
\* (init, log-callback registration, run) and changes none of the session
\* singleton, the captured output buffer and the channel.
C4_NulTouchesNothing == ReturnedNulRun => ret.hist.touched = {}

\* C4 (amended): a run with an embedded NUL never invokes lvm2_run and never
\* changes the captured output buffer or the channel; it invokes lvm2_init
\* and lvm2_log_fn (once each, initializing the singleton) exactly when it is
\* the first dereference of LVM in the process, and not otherwise.
C4_NulTouchesOnlyLazyInit ==
    ReturnedNulRun =>
        /\ ret.hist.touched \in {{}, {"init", "log_fn", "singleton"}}
        /\ ret.hist.touched # {} => initCalls = 1 /\ logFnCalls = 1
        /\ ret.hist.pushed = <<>> /\ ~ret.hist.tried /\ ret.hist.code = -1

\* C4 witness: a run with an embedded NUL was rejected by an initialized
\* singleton without touching anything.
C4_Witness ==
    ReturnedNulRun /\ ret.result = InvalidCommandLine /\ ret.hist.touched = {}
       /\ initCalls = 1

\* C5: a panic of the function poisons the LVM mutex and reaches the caller;
\* the mutex stays poisoned for ever; every call that returns once it is
\* poisoned (other than the panicking one) returns GlobalStatePoisoned and
\* has invoked neither its function nor lvm2_run.
C5_PoisonedReturns ==
    Returned =>
        /\ ret.result.tag = "Panic" => lvmPoisoned /\ ret.hist.fCalls = 1
        /\ lvmPoisoned /\ ret.result.tag # "Panic" =>
              /\ ret.result = GlobalStatePoisoned
              /\ ret.hist.fCalls = 0
              /\ "run" \notin ret.hist.touched

C5_PoisoningIsPermanent ==
    [](C5_PoisonedReturns) /\ [][lvmPoisoned => lvmPoisoned']_vars

\* C5 witness: after a panic, a run call has returned GlobalStatePoisoned.
C5_Witness ==
    lvmPoisoned /\ Returned /\ ret.call.kind = "run" /\ ret.result = GlobalStatePoisoned

\* C6: lvm2_init is called at most once; once the initialization has failed,
\* every call returns InitFailed without invoking its function.
C6_InitAtMostOnce ==
    /\ initCalls <= 1
    /\ (LVM = "uninit") = (initCalls = 0)
    /\ Returned /\ LVM = "Err" => ret.result = InitFailed /\ ret.hist.fCalls = 0

\* C6 witness: after a failed initialization, a call that did not run the
\* initialization itself has returned InitFailed.
C6_Witness ==
    LVM = "Err" /\ Returned /\ ret.result = InitFailed /\ "init" \notin ret.hist.touched

\* C7: acquire_and returns GlobalStatePoisoned without invoking f if the
\* mutex is poisoned; else InitFailed without invoking f if the
\* initialization failed; else it has invoked f exactly once and returns what
\* f returned (if f panics, the panic reaches the caller instead).
C7_ThreeOutcomes ==
    Returned =>
        IF ret.result.tag = "Panic" THEN ret.hist.fCalls = 1 /\ LVM = "Ok"
        ELSE IF lvmPoisoned THEN ret.result = GlobalStatePoisoned /\ ret.hist.fCalls = 0
        ELSE IF LVM = "Err" THEN ret.result = InitFailed /\ ret.hist.fCalls = 0
        ELSE ret.hist.fCalls = 1 /\ ret.result = ret.hist.fResult

\* C7 witness: acquire_and has returned the Err its function returned.
C7_Witness ==
    Returned /\ ret.call.kind = "acquire_and" /\ ret.hist.fCalls = 1
       /\ ret.result = Res("Unknown", 42, <<>>, {})

\* C8: when lvm2_run returns a code other than 1, run returns the error of
\* the table (2 NoSuchCommand, 3 InvalidParameters, 4 InitFailed,
\* 5 ProcessingFailed, other Unknown with the value) and has neither read
\* from the channel nor waited on the condition variable.
C8_FailureCodeReturned ==
    Returned /\ ret.hist.code \notin {-1, 1} =>
        /\ ret.result.tag = CASE ret.hist.code = 2 -> "NoSuchCommand"
                              [] ret.hist.code = 3 -> "InvalidParameters"
                              [] ret.hist.code = 4 -> "InitFailed"
                              [] ret.hist.code = 5 -> "ProcessingFailed"
                              [] OTHER -> "Unknown"
        /\ ret.result.code = IF ret.hist.code \in 2..5 THEN 0 ELSE ret.hist.code
        /\ ret.result.text = <<>> /\ ret.result.doc = {}
        /\ ~ret.hist.tried /\ ~ret.hist.waited /\ ~ret.hist.blockingRecv
        /\ ret.string_data = <<>>

\* C8 witness: lvm2_run returned 3 while an item was in the channel, and run
\* returned InvalidParameters.
C8_Witness ==
    Returned /\ ret.hist.code = 3 /\ ret.result.tag = "InvalidParameters"
       /\ CHANNEL # <<>>

\* C9 (as claimed): when the engine invocation returns success having
\* emitted no print-severity line and one completion marker, as its last
\* callback, run returns the placeholder document.
\* (no callback has arrived outside an engine invocation)
C9_PlaceholderReturned ==
    ~stray =>
      ( Returned /\ ret.hist.code = 1 /\ ret.hist.nPrint = 0
                 /\ ret.hist.nMarker = 1 /\ ret.hist.markerLast
            => ret.result = Res("Ok", 0, <<>>, PlaceholderDoc) )

\* C10 (as claimed): when the engine invocation returns success having
\* emitted print-severity lines (at least one) and then one completion
\* marker, as its last callback, the text run parses is the concatenation of
\* the print messages in order.
\* (no callback has arrived outside an engine invocation)
C10_ParsesConcatenation ==
    ~stray =>
      ( Returned /\ ret.hist.code = 1 /\ ret.hist.nPrint >= 1
                 /\ ret.hist.nMarker = 1 /\ ret.hist.markerLast
            => ret.string_data = ret.hist.printed )

\* C11 (as claimed): when the engine invocation returns success having
\* emitted one completion marker, as its last callback, and the text run
\* received is not a well-formed document, run returns
\* JsonDeserializationFailed carrying exactly the print-severity text emitted
\* during that invocation.
\* (no callback has arrived outside an engine invocation)
C11_RawTextIsPrinted ==
    ~stray =>
      ( Returned /\ ret.hist.code = 1 /\ ret.hist.nMarker = 1 /\ ret.hist.markerLast
                 /\ ~FromStr(ret.string_data).ok
            => ret.result = Res("JsonDeserializationFailed", 0, ret.hist.printed, {}) )

\* C12 (as claimed): once the process has ended, lvm2_exit has been called
\* exactly once for an engine handle that was initialized; it is never
\* called more than once.
C12_TeardownExactlyOnce ==
    /\ exitCalls <= 1
    /\ terminated /\ LVM = "Ok" => exitCalls = 1

\* C13 (as claimed): when the result of a run call reaches its caller, no
\* run call of another thread that locked LVM earlier is still on its way to
\* its caller.
C13_ResultsReachCallersInEntryOrder ==
    [][\A t \in Threads :
          pc[t] = "returning" /\ pc'[t] = "idle" /\ call[t].kind = "run"
              => \A i \in 1..Len(entered) :
                    call[entered[i]].kind = "run" /\ entered[i] # t
                        => \E j \in 1..(i - 1) : entered[j] = t]_vars

\* C13 (amended): of two run calls by different threads, the one that locked
\* LVM first has its result and has released the lock before the other one
\* locks it; the two results may reach the callers in either order.
C13_CompletesInEntryOrder ==
    \A i, j \in 1..Len(entered) :
        i < j /\ call[entered[i]].kind = "run" /\ call[entered[j]].kind = "run"
            => pc[entered[i]] = "returning" /\ lvmHolder # entered[i]

\* C13 witness: a second run call has locked LVM and received its text while
\* the result of the first is still on its way to its caller.
C13_Witness ==
    /\ Len(entered) = 2
    /\ call[entered[1]].kind = "run" /\ call[entered[2]].kind = "run"
    /\ pc[entered[1]] = "returning"
    /\ pc[entered[2]] = "from_str"

\* an engine invocation returned the success code without having delivered
\* the completion marker
Undelivered ==
    \E u \in Threads : pc[u] \in {"try_recv", "wait", "recv"} /\ ~hist[u].delivered

\* C14: a run call whose engine invocation delivered the completion marker
\* before returning success never waits on DATA_ARRIVED, and a call that
\* has returned does not hold the LVM mutex
C14_NeverWaits ==
    \A t \in Threads :
        /\ pc[t] \in {"wait", "recv"} => ~hist[t].delivered
        /\ pc[t] \in {"try_recv", "from_str"} /\ hist[t].delivered => ~hist[t].waited
        /\ pc[t] \in {"returning", "idle"} => lvmHolder # t

\* C14: if every engine call returns and every successful invocation has
\* delivered the completion marker before it returns, then with a fair LVM
\* mutex every run call eventually returns to its caller, the LVM mutex
\* released, and never waits on DATA_ARRIVED.
C14_EveryRunReturns ==
    /\ []C14_NeverWaits
    /\ \A t \in Threads :
          (pc[t] = "acquire" /\ call[t].kind = "run") ~> (pc[t] = "idle" \/ Undelivered)

\* C14 witness: a run call whose marker was delivered in time returns Ok
\* without having waited, while another run call waits for the LVM mutex.
C14_Witness ==
    /\ Returned /\ ret.call.kind = "run" /\ ret.result.tag = "Ok"
    /\ ret.hist.delivered /\ ret.hist.tried /\ ~ret.hist.waited
    /\ \E t \in Threads : pc[t] = "acquire" /\ call[t].kind = "run"

\* C15 (as claimed): a run call whose engine invocation returned the success
\* code, with no completion marker signalled for it, stays blocked on
\* DATA_ARRIVED holding the LVM mutex: it is about to wait or waiting, and
\* it never returns.
\* (no callback has arrived outside an engine invocation)
C15_BlocksOnCondvarForever ==
    ~stray =>
      ( /\ \A t \in Threads :
              hist[t].code = 1 /\ hist[t].nMarker = 0
                  => pc[t] \in {"try_recv", "wait"} /\ lvmHolder = t
        /\ ~(Returned /\ ret.hist.code = 1 /\ ret.hist.nMarker = 0) )

\* C16 (as claimed): the channel never holds more than one item that was
\* sent and not yet received; stated for an engine invocation that has
\* emitted at most one completion marker and found at most one item pending
\* when it began.
\* (no callback has arrived outside an engine invocation)
C16_AtMostOnePending ==
    ~stray =>
      ( \A t \in Threads :
            InCriticalSection(t) /\ hist[t].nMarker <= 1 /\ hist[t].pendingAtStart <= 1
                => Len(CHANNEL) <= 1 )

\* C17 (as claimed): CAPTURED_CMD_DATA is empty when an engine invocation
\* starts (lvm2_run entered, no print line or marker of it delivered yet),
\* whatever the preceding commands did.
\* (no callback has arrived outside an engine invocation)
C17_BufferEmptyAtStart ==
    ~stray =>
      ( \A t \in Threads :
            pc[t] = "lvm2_run" /\ hist[t].nPrint = 0 /\ hist[t].nMarker = 0
                => CAPTURED_CMD_DATA = <<>> )

\* C19 (as claimed): whenever _run is at recv(), after DATA_ARRIVED.wait
\* returned, an item is in the channel, so recv() does not block with the
\* CHANNEL mutex held.
C19_RecvFindsItem ==
    \A t \in Threads : pc[t] = "recv" => CHANNEL # <<>>

\* C18: a log callback changes neither CAPTURED_CMD_DATA nor the channel
\* and does not notify, unless its level is 4 (print, any file) or its level
\* is 7 (debug), its file is lvmcmdline.c and its message starts with
\* Completed: ; so a Completed: debug line of another file and a debug line
\* of lvmcmdline.c without the prefix are ignored.
C18_OtherLinesIgnored ==
    \A level \in 0..8 : \A line \in LogLines :
        LET isPrint == level = 4
            isMarker == /\ level = 7
                        /\ line.file = "lvmcmdline.c"
                        /\ Len(line.message) > 0
                        /\ line.message[1] = "Completed:"
        IN  ~isPrint /\ ~isMarker
                => log_capturer(level, line.file, line.message,
                                CAPTURED_CMD_DATA, CHANNEL)
                     = [cmd_output |-> CAPTURED_CMD_DATA, queue |-> CHANNEL,
                        notify |-> FALSE]

\* C18 witness: the first call's engine invocation has delivered a print
\* line and a line that is neither print nor marker; the buffer holds the
\* print text and nothing was sent.
C18_Witness ==
    /\ nCalls = 1 /\ nLines = 2
    /\ \E t \in Threads :
          /\ pc[t] = "lvm2_run"
          /\ hist[t].nPrint = 1 /\ hist[t].nMarker = 0
          /\ CAPTURED_CMD_DATA = hist[t].printed /\ CAPTURED_CMD_DATA # <<>>
          /\ CHANNEL = <<>>

\* a run call returned an error that is neither GlobalStatePoisoned nor the
\* failed lazy initialization
OrdinaryError ==
    /\ Returned /\ ret.call.kind = "run"
    /\ \/ ret.result.tag \in {"InvalidCommandLine", "JsonDeserializationFailed"}
       \/ ret.hist.code \notin {-1, 1}

\* C20: a run call that returns a mapped engine failure code,
\* InvalidCommandLine or JsonDeserializationFailed leaves the LVM mutex
\* released and not poisoned, the CHANNEL mutex released and the handle
\* initialized; the thread that locks LVM next gets the guard and its
\* function is invoked.
C20_OrdinaryErrorsNotSticky ==
    /\ [](OrdinaryError => /\ lvmHolder = 0 /\ ~lvmPoisoned /\ chHolder = 0
                           /\ LVM = "Ok")
    /\ [][\A t \in Threads :
            /\ OrdinaryError /\ pc[t] = "acquire" /\ pc'[t] # "acquire"
                => pc'[t] = "locked" /\ lvmHolder' = t
            /\ pc[t] = "locked" /\ pc'[t] # "locked" /\ LVM = "Ok"
                => pc'[t] \in {"f", "_run"} /\ hist'[t].fCalls = 1]_vars

\* C20 witness: a run call returned JsonDeserializationFailed while a call
\* of acquire_and waits for the LVM mutex.
C20_Witness ==
    /\ Returned /\ ret.call.kind = "run"
    /\ ret.result.tag = "JsonDeserializationFailed"
    /\ \E t \in Threads : pc[t] = "acquire" /\ call[t].kind = "acquire_and"
====
